---- MODULE Spec2Model ----
(***************************************************************************)
(* Word-level model of the sbrk based allocator of src/src/allocator.cpp.  *)
(*                                                                         *)
(* Memory is the program's data segment above the initial program break.   *)
(* It is modelled as a sparse map from byte addresses (multiples of 8) to  *)
(* 64-bit words; a word that was never written reads as 0, as the kernel   *)
(* hands out zero-filled pages.                                            *)
(*                                                                         *)
(* A 64-bit word (a size_t, a pointer, a header) is the triple <<a, b, c>> *)
(* of its bits 0..23, 24..47 and 48..63: its value is a + b * 2^24 +       *)
(* c * 2^48.  Sums and differences wrap at 2^64 as size_t arithmetic does, *)
(* and addresses are the addresses of the process: h.seg is the program    *)
(* break the first call finds.                                             *)
(*                                                                         *)
(* The operators work on a record h = [mem, heapStart, searchStart, top,   *)
(* brk, st, seg].  h.st is "ok" while the call runs inside the model, "ub" *)
(* once it has made an access outside the mapped pages of the data segment *)
(* or an unaligned one (undefined behaviour: the outcome is not tracked),  *)
(* "hang" when the search loop of firstFit never ends.  printMemory, the   *)
(* debug listing, reports the same three outcomes for its own loop.        *)
(*                                                                         *)
(* Between two calls the caller may store into the bytes of a request it   *)
(* still holds (src/test/test.cpp, secondTest): the action Write.          *)
(***************************************************************************)
EXTENDS Integers, FiniteSets, Sequences, Bags, TLC

\* ---- bounds of the exploration ----
MaxOps == 5
MaxHeapWords == 5
MaxReqWords == 2

\* ---- 64-bit words ----
\* 2^24 and 2^16: the ranges of the two low parts and of the top part
Limb == 16777216
TopLimb == 65536

\* the word of an integer n, -2^31 < n < 2^31; a negative n is 2^64 + n
W(n) == <<n % Limb, (n \div Limb) % Limb, IF n < 0 THEN TopLimb - 1 ELSE 0>>

\* the carry out of a part: 1, 0, or -1 for a borrow
Carry(s) == s \div Limb

\* x + y and x - y modulo 2^64
AddParts(x, y, s1, s2) ==
    <<s1 % Limb, s2 % Limb, (x[3] + y[3] + Carry(s2)) % TopLimb>>

Add(x, y) ==
    AddParts(x, y, x[1] + y[1], x[2] + y[2] + Carry(x[1] + y[1]))

SubParts(x, y, d1, d2) ==
    <<d1 % Limb, d2 % Limb, (x[3] - y[3] + Carry(d2)) % TopLimb>>

Sub(x, y) ==
    SubParts(x, y, x[1] - y[1], x[2] - y[2] + Carry(x[1] - y[1]))

\* x + n and x - n for a small integer n
Plus(x, n) == Add(x, W(n))
Minus(x, n) == Sub(x, W(n))

\* unsigned order of size_t and of pointers
ULE(x, y) ==
    IF x[3] # y[3] THEN x[3] < y[3]
    ELSE IF x[2] # y[2] THEN x[2] < y[2]
    ELSE x[1] <= y[1]
UGE(x, y) == ULE(y, x)
ULT(x, y) == ~ULE(y, x)

\* bit 63: the sign of the word read as intptr_t
IsNeg(x) == x[3] >= TopLimb \div 2

\* x * d modulo 2^64 for a digit d below 128
Times(x, d) ==
    <<(x[1] * d) % Limb,
      (x[2] * d + Carry(x[1] * d)) % Limb,
      (x[3] * d + Carry(x[2] * d + Carry(x[1] * d))) % TopLimb>>

\* x shifted right by one hexadecimal digit
Digit == 16
ShiftRight(x) ==
    <<(x[1] \div Digit) + (x[2] % Digit) * (Limb \div Digit),
      (x[2] \div Digit) + (x[3] % Digit) * (Limb \div Digit),
      x[3] \div Digit>>

\* x * y modulo 2^64, digit by digit
RECURSIVE Mul(_, _)
Mul(x, y) ==
    IF y = <<0, 0, 0>> THEN y
    ELSE Add(Times(x, y[1] % Digit), Times(Mul(x, ShiftRight(y)), Digit))

\* x % m and x - x % m for a power of two m <= 2^24
LowBits(x, m) == x[1] % m
ClearLow(x, m) == <<x[1] - (x[1] % m), x[2], x[3]>>

\* x & ~1 and x | 1
ClearBit0(x) == ClearLow(x, 2)
SetBit0(x) == Plus(ClearLow(x, 2), 1)

\* 256^k, the weight of byte k of a little-endian word
RECURSIVE ByteWeight(_)
ByteWeight(k) == IF k = 0 THEN 1 ELSE 256 * ByteWeight(k - 1)

\* of the low k bytes of a word, the number that lie in the part that
\* starts at byte first and holds width bytes
BytesIn(k, first, width) ==
    IF k <= first THEN 0 ELSE IF k >= first + width THEN width ELSE k - first

\* the low k bytes of x, as a word
LowBytes(x, k) ==
    <<x[1] % ByteWeight(BytesIn(k, 0, 3)),
      x[2] % ByteWeight(BytesIn(k, 3, 3)),
      x[3] % ByteWeight(BytesIn(k, 6, 2))>>

\* ---- program and platform constants ----
NULL == W(0)
WordSize == 8
BlockHdr == 16
PageSize == 4096
\* bytes of the data segment below the first break: the heap the C library
\* has set up for itself by the time of the first call
LibcHeap == 135168
searchMode == "FirstFit"

MaxHeap == MaxHeapWords * WordSize

\* (n + 7) & ~7
align(n) == ClearLow(Plus(n, WordSize - 1), WordSize)

\* ---- the data segment ----
\* The program break the first call finds, where the loader and the C
\* library have put it: below 2^24 in a build without PIE run at fixed
\* addresses, near 2^46 in a PIE build.
FixedBreak == W(4562944)
PieBreak == <<3166208, 5648477, 0>>
Placements == {FixedBreak, PieBreak}

\* the first program break (sbrk(0) of the first requestFromOS)
Base(h) == h.seg

\* ---- memory ----
PageCeil(a) == Plus(a, (PageSize - LowBits(a, PageSize)) % PageSize)

\* an access the model tracks: word aligned, inside the pages the kernel
\* has mapped for the data segment [Base, PageCeil(brk))
Mapped(h, a) == /\ LowBits(a, WordSize) = 0
                /\ UGE(a, Base(h))
                /\ ULT(a, PageCeil(h.brk))

Load(h, a) == IF a \in DOMAIN h.mem THEN h.mem[a] ELSE NULL

Put(m, a, v) == IF v = NULL
                THEN [x \in (DOMAIN m) \ {a} |-> m[x]]
                ELSE [x \in (DOMAIN m) \cup {a} |-> IF x = a THEN v ELSE m[x]]

\* the access check of every load and store
Touch(h, a) == IF h.st = "ok" /\ ~Mapped(h, a) THEN [h EXCEPT !.st = "ub"] ELSE h

Store(h, a, v) == IF h.st = "ok" /\ Mapped(h, a)
                  THEN [h EXCEPT !.mem = Put(h.mem, a, v)]
                  ELSE Touch(h, a)

\* ---- block header accessors ----
getBlockSize(h, block) == ClearBit0(Load(h, block))

getNext(h, block) == Add(block, getBlockSize(h, block))

isFree(h, block) == LowBits(Load(h, block), 2) = 1

setFree(h, block, free) ==
    Store(h, block, IF free THEN SetBit0(Load(h, block)) ELSE ClearBit0(Load(h, block)))

\* size | (header & 1): an odd size already holds bit 0
setSize(h, block, size) ==
    Store(h, block, IF LowBits(size, 2) = 1 THEN size
                    ELSE Plus(size, LowBits(Load(h, block), 2)))

getBlock(data) == IF data = NULL THEN NULL ELSE Minus(data, BlockHdr)

\* block->data : the word stored in the second field of the header
dataField(h, block) == Load(h, Plus(block, WordSize))

\* ---- splitting ----
canSplit(h, block, size) == UGE(getBlockSize(h, block), size)

\* split after setSize(block, size): the remainder header
splitRemainder(h, block, size, originalSize) ==
    setSize(setFree(h, getNext(h, block), TRUE), getNext(h, block),
            Minus(Sub(originalSize, size), BlockHdr))

split(h, block, size) ==
    splitRemainder(setSize(h, block, size), block, size, getBlockSize(h, block))

\* ---- coalescing ----
\* the loads canMerge makes: the header of block, and of next when next <= top
canMergeTouch(h, block) ==
    IF Mapped(h, block) /\ getNext(h, block) # NULL /\ ULE(getNext(h, block), h.top)
    THEN Touch(h, getNext(h, block))
    ELSE Touch(h, block)

canMerge(h, block) ==
    /\ getNext(h, block) # NULL
    /\ ULE(getNext(h, block), h.top)
    /\ isFree(h, getNext(h, block))

merge(h, block) ==
    setSize(Touch(h, getNext(h, block)), block,
            Minus(Add(getBlockSize(h, block), getBlockSize(h, getNext(h, block))),
                  BlockHdr))

\* ---- searching ----
bestFit(h, size) == [st |-> "ok", block |-> h.heapStart]

\* the loop of firstFit; it never ends when it comes back to a block it has
\* already rejected, as it changes no memory
RECURSIVE firstFitFrom(_, _, _, _)
firstFitFrom(h, size, block, seen) ==
    IF block = NULL \/ ~ULE(block, h.top) THEN [st |-> "ok", block |-> NULL]
    ELSE IF ~Mapped(h, block) THEN [st |-> "ub", block |-> NULL]
    ELSE IF block \in seen THEN [st |-> "hang", block |-> NULL]
    ELSE IF isFree(h, block) /\ UGE(getBlockSize(h, block), size)
         THEN [st |-> "ok", block |-> block]
    ELSE firstFitFrom(h, size, getNext(h, block), seen \cup {block})

firstFit(h, size) == firstFitFrom(h, size, h.heapStart, {})

nextFit(h, size) == [st |-> "ok", block |-> h.heapStart]

\* the switch of findBlock
searchBlock(h, size) ==
    CASE searchMode = "BestFit" -> bestFit(h, size)
      [] searchMode = "FirstFit" -> firstFit(h, size)
      [] searchMode = "NextFit" -> nextFit(h, size)

\* the end of findBlock: split the block found
splitFound(h, size, f) ==
    IF f.st # "ok" THEN [h |-> [h EXCEPT !.st = f.st], block |-> NULL]
    ELSE IF f.block # NULL /\ canSplit(h, f.block, size)
         THEN [h |-> split(h, f.block, size), block |-> f.block]
         ELSE [h |-> h, block |-> f.block]

\* result: the heap after the call and the block handed back
findBlock(h, size) == splitFound(h, size, searchBlock(h, size))

\* ---- growing the heap ----
\* sbrk(increment), the increment read as intptr_t.  sbrk(0) reads the
\* break.  Growth fails when the data segment may not grow that far.  A
\* negative increment fails when it is larger than the address of the break.
sbrkOk(h, increment) ==
    \/ increment = NULL
    \/ ~IsNeg(increment) /\ ULE(Add(h.brk, increment), Plus(Base(h), MaxHeap))
    \/ IsNeg(increment) /\ UGE(h.brk, Sub(NULL, increment))

\* the program break after a call of sbrk that did not fail.  A negative
\* increment lowers it, also below Base, into the part of the data segment
\* the C library took before the first call; the kernel leaves the break
\* where it is when asked to move it below the start of the data segment
sbrkTo(h, increment) ==
    IF ULT(Add(h.brk, increment), Minus(Base(h), LibcHeap))
    THEN h.brk ELSE Add(h.brk, increment)

\* requestFromOS after the header is written: heapStart, the data field
\* found after the old top, top
linkBlock(h, block) ==
    IF h.heapStart = NULL
    THEN [h EXCEPT !.heapStart = block, !.top = block]
    ELSE [Store(Touch(h, h.top), Plus(getNext(h, h.top), WordSize), block)
             EXCEPT !.top = block]

\* variant of requestFromOS that formats the block before testing sbrk's result
requestFromOS_FormatFirst(h, size) ==
    IF ~sbrkOk(h, size)
    THEN [h |-> setFree(setSize(h, h.brk, Minus(size, BlockHdr)), h.brk, TRUE),
          block |-> NULL]
    ELSE [h |-> linkBlock(setFree(setSize([h EXCEPT !.brk = sbrkTo(h, size)], h.brk,
                                          Minus(size, BlockHdr)), h.brk, TRUE), h.brk),
          block |-> h.brk]

requestFromOS(h, size) ==
    IF ~sbrkOk(h, size) THEN [h |-> h, block |-> NULL]
    ELSE [h |-> linkBlock(setFree(setSize([h EXCEPT !.brk = sbrkTo(h, size)], h.brk,
                                          Minus(size, BlockHdr)), h.brk, TRUE), h.brk),
          block |-> h.brk]

\* ---- public interface ----
\* "return block->data"
returnData(h, block) ==
    [h |-> Touch(h, Plus(block, WordSize)), ret |-> dataField(h, block)]

\* _malloc on the block r that requestFromOS returned
takeGrown(r, size) ==
    IF r.block # NULL
    THEN returnData([setFree(setSize(r.h, r.block, size), r.block, FALSE)
                        EXCEPT !.heapStart = IF @ = NULL THEN r.block ELSE @,
                               !.top = r.block],
                    r.block)
    ELSE [h |-> r.h, ret |-> NULL]

\* _malloc on the block f that findBlock returned
takeFound(f, size) ==
    IF f.block # NULL
    THEN returnData(setFree(f.h, f.block, FALSE), f.block)
    ELSE takeGrown(requestFromOS(f.h, size), size)

\* _malloc from "size = align(size)" on
mallocAligned(h, size) == takeFound(findBlock(h, size), size)

\* variant of _malloc without the test for a zero size
_malloc_NoZeroCheck(h, n) == mallocAligned(h, align(n))

\* result: the heap after the call and the pointer returned
_malloc(h, n) ==
    IF n = NULL THEN [h |-> h, ret |-> NULL]
    ELSE mallocAligned(h, align(n))

\* the end of _free: "if (canMerge(block)) merge(block)"
mergeFreed(h, block) ==
    IF h.st = "ok" /\ canMerge(h, block) THEN merge(h, block) ELSE h

_free(h, data) ==
    IF data = NULL THEN h
    ELSE mergeFreed(canMergeTouch(setFree(h, getBlock(data), TRUE), getBlock(data)),
                    getBlock(data))

\* ---- heap listing ----
\* printMemory: the block addresses listed from heapStart by getNext while
\* current <= top.  The loop has no other guard: it faults (st "ub") where
\* it leaves the mapped pages and never ends (st "hang") when it comes back
\* to a block it has already listed; listed is then what it printed before
listBlock(current, r) == [st |-> r.st, listed |-> <<current>> \o r.listed]

RECURSIVE printMemoryFrom(_, _, _)
printMemoryFrom(h, current, seen) ==
    IF current = NULL \/ ~ULE(current, h.top) THEN [st |-> "ok", listed |-> <<>>]
    ELSE IF ~Mapped(h, current) THEN [st |-> "ub", listed |-> <<>>]
    ELSE IF current \in seen THEN [st |-> "hang", listed |-> <<>>]
    ELSE listBlock(current, printMemoryFrom(h, getNext(h, current), seen \cup {current}))

printMemory(h) == printMemoryFrom(h, h.heapStart, {})

\* ---- libc block operations ----
\* n bytes at a lie inside the mapped pages of the data segment
InPages(h, a, n) == Mapped(h, a) /\ ULE(n, Sub(PageCeil(h.brk), a))

\* memset(p, 0, n): whole words, then the low n % 8 bytes of the last word
RECURSIVE zeroWords(_, _, _)
zeroWords(h, p, end) ==
    IF p = end \/ h.st # "ok" THEN h
    ELSE zeroWords(Store(h, p, NULL), Plus(p, WordSize), end)

zeroBytes(h, a, k) ==
    IF k = 0 THEN h ELSE Store(h, a, Sub(Load(h, a), LowBytes(Load(h, a), k)))

memsetZero(h, p, n) ==
    zeroBytes(IF ClearLow(n, WordSize) = NULL \/ InPages(h, p, ClearLow(n, WordSize))
              THEN zeroWords(h, p, Add(p, ClearLow(n, WordSize)))
              ELSE [h EXCEPT !.st = "ub"],
              Add(p, ClearLow(n, WordSize)), LowBits(n, WordSize))

\* memcpy(dst, src, cnt): the regions must be mapped and must not overlap
RECURSIVE copyWords(_, _, _, _)
copyWords(h, dst, src, end) ==
    IF dst = end \/ h.st # "ok" THEN h
    ELSE copyWords(Store(h, dst, Load(h, src)), Plus(dst, WordSize),
                   Plus(src, WordSize), end)

copyBytes(h, d, s, k) ==
    IF k = 0 THEN h
    ELSE Store(h, d, Add(Sub(Load(h, d), LowBytes(Load(h, d), k)),
                         LowBytes(Load(h, s), k)))

\* the bytes between two addresses
Distance(a, b) == IF UGE(a, b) THEN Sub(a, b) ELSE Sub(b, a)

memcpy(h, dst, src, cnt) ==
    IF cnt = NULL \/ h.st # "ok" THEN h
    ELSE IF \/ ULT(Distance(dst, src), cnt)
            \/ ~InPages(h, src, cnt)
            \/ ~InPages(h, dst, cnt)
         THEN [h EXCEPT !.st = "ub"]
    ELSE copyBytes(copyWords(h, dst, src, Add(dst, ClearLow(cnt, WordSize))),
                   Add(dst, ClearLow(cnt, WordSize)),
                   Add(src, ClearLow(cnt, WordSize)), LowBits(cnt, WordSize))

\* _calloc on the result m of its _malloc
zeroFill(m, bytes) ==
    IF m.ret # NULL THEN [h |-> memsetZero(m.h, m.ret, bytes), ret |-> m.ret] ELSE m

\* variant of _calloc that adds its arguments
_calloc_Sum(h, n, size) == zeroFill(_malloc(h, Add(n, size)), Add(n, size))

_calloc(h, n, size) == zeroFill(_malloc(h, Mul(n, size)), Mul(n, size))

\* _realloc on the result m of its _malloc
\* result: the heap, the pointer returned and the number of bytes copied
moveData(m, data) ==
    IF m.ret # NULL
    THEN [h |-> _free(memcpy(Touch(m.h, getBlock(data)), m.ret, data,
                             getBlockSize(m.h, getBlock(data))), data),
          ret |-> m.ret,
          copied |-> getBlockSize(m.h, getBlock(data))]
    ELSE [h |-> m.h, ret |-> m.ret, copied |-> NULL]

_realloc(h, data, newSize) == moveData(_malloc(h, newSize), data)

\* ---- the program as a state machine ----
VARIABLES heapStart, searchStart, top, brk, mem, st, seg, live, last, prev, ops

vars == <<heapStart, searchStart, top, brk, mem, st, seg, live, last, prev, ops>>

\* the allocator's state as the record the operators above work on
Heap == [mem |-> mem, heapStart |-> heapStart, searchStart |-> searchStart,
         top |-> top, brk |-> brk, st |-> st, seg |-> seg]

EmptyMap == [x \in {} |-> NULL]

\* request sizes: zero, whole words, and one size that align rounds up
ReqSizes == {W(0)} \cup {W(WordSize * k) : k \in 1..MaxReqWords}
                \cup {W(WordSize * MaxReqWords - 7)}

\* calloc arguments: a zero, a whole number of words, or one byte more
Counts == {W(0), W(1), W(2)}
CallocArgs == {a \in Counts \X ReqSizes : LowBits(Mul(a[1], a[2]), WordSize) \in {0, 1}}

\* a call of the public interface: its arguments (p, n, m), for a pointer
\* argument the size it was requested with (pn) and the call it came from
\* (pby), the value returned and the byte count handed to memcpy
NoCall == [op |-> "none", p |-> NULL, n |-> NULL, m |-> NULL, pn |-> NULL,
           pby |-> "none", ret |-> NULL, copied |-> NULL]

Init == /\ seg \in Placements
        /\ heapStart = NULL
        /\ searchStart = NULL
        /\ top = NULL
        /\ brk = seg
        /\ mem = EmptyMap
        /\ st = "ok"
        /\ live = EmptyBag
        /\ last = [call |-> NoCall, pre |-> Heap]
        /\ prev = NoCall
        /\ ops = 0

\* the pointers the caller holds, one variable per call as in firstTest:
\* each with the size it was requested with and the call it came from.  A
\* call that returns an address the caller already holds makes a second
\* holding of it, so live is a bag.
Holding(p, n, by) == [p |-> p, n |-> n, by |-> by]
NoHolding == Holding(NULL, NULL, "none")
Held == BagToSet(live)
Drop(f, e) == f (-) SetToBag({e})
Bind(f, p, n, by) ==
    IF p = NULL THEN f ELSE f (+) SetToBag({Holding(p, n, by)})

\* a call returns: the heap becomes h, unless the call ran into undefined
\* behaviour or never returns, then only st records it
Return(h, c, newLive) ==
    /\ ops' = ops + 1
    /\ prev' = last.call
    /\ IF h.st = "ok"
       THEN /\ heapStart' = h.heapStart
            /\ top' = h.top
            /\ brk' = h.brk
            /\ mem' = h.mem
            /\ st' = "ok"
            /\ live' = newLive
            /\ last' = [call |-> c, pre |-> Heap]
       ELSE /\ st' = h.st
            /\ last' = [call |-> [c EXCEPT !.ret = NULL, !.copied = NULL], pre |-> Heap]
            /\ UNCHANGED <<heapStart, top, brk, mem, live>>
    /\ UNCHANGED <<searchStart, seg>>

MallocReturns(r, n) ==
    Return(r.h, [NoCall EXCEPT !.op = "malloc", !.n = n, !.ret = r.ret],
           Bind(live, r.ret, n, "malloc"))

Malloc(n) ==
    /\ st = "ok" /\ ops < MaxOps
    /\ MallocReturns(_malloc(Heap, n), n)

Free(e) ==
    /\ st = "ok" /\ ops < MaxOps
    /\ Return(_free(Heap, e.p),
              [NoCall EXCEPT !.op = "free", !.p = e.p, !.pn = e.n, !.pby = e.by],
              Drop(live, e))

CallocReturns(r, n, size) ==
    Return(r.h, [NoCall EXCEPT !.op = "calloc", !.n = n, !.m = size, !.ret = r.ret],
           Bind(live, r.ret, Mul(n, size), "calloc"))

Calloc(n, size) ==
    /\ st = "ok" /\ ops < MaxOps
    /\ CallocReturns(_calloc(Heap, n, size), n, size)

ReallocReturns(r, e, n) ==
    Return(r.h, [NoCall EXCEPT !.op = "realloc", !.p = e.p, !.n = n, !.pn = e.n,
                               !.pby = e.by, !.ret = r.ret, !.copied = r.copied],
           IF r.ret # NULL THEN Bind(Drop(live, e), r.ret, n, "realloc") ELSE live)

Realloc(e, n) ==
    /\ st = "ok" /\ ops < MaxOps
    /\ ReallocReturns(_realloc(Heap, e.p, n), e, n)

\* the words a caller stores: a value that is no multiple of the word size
\* and 2^64-15
StoreValues == {W(10), W(0 - 15)}

\* word offsets into the largest request, the two elements of _calloc
Offsets == {WordSize * i : i \in 0..(2 * MaxReqWords - 1)}

\* the whole words of the n bytes the caller asked for in the holding e
OwnWords(e) == {Plus(e.p, off) : off \in {o \in Offsets : ULE(W(o + WordSize), e.n)}}

\* the caller uses the memory it was given: it stores the word v at p + off
Write(e, off, v) ==
    /\ st = "ok" /\ ops < MaxOps
    /\ Plus(e.p, off) \in OwnWords(e)
    /\ Return(Store(Heap, Plus(e.p, off), v),
              [NoCall EXCEPT !.op = "store", !.p = e.p, !.n = v, !.m = W(off),
                             !.pn = e.n, !.pby = e.by],
              live)

Next == \/ \E n \in ReqSizes : Malloc(n)
        \/ \E e \in Held \cup {NoHolding} : Free(e)
        \/ \E a \in CallocArgs : Calloc(a[1], a[2])
        \/ \E e \in Held \cup {NoHolding}, n \in ReqSizes : Realloc(e, n)
        \/ \E e \in Held, off \in Offsets, v \in StoreValues : Write(e, off, v)

Spec == Init /\ [][Next]_vars

\* ---- requests at the edge of size_t ----
\* the two ends of the sizes that n + 7 carries past 2^64, 2^64 - 1 and
\* 2^64 - 7, the largest size that align leaves alone, 2^64 - 8, and
\* 2^64 - 2^30, an increment that sbrk refuses where the break lies below
\* 2^30
EdgeSizes == {W(0 - 1), W(0 - 7), W(0 - 8), W(0 - 1073741824)}
WideSizes == ReqSizes \cup EdgeSizes

\* allocate and release alone, the requested size ranging up to the edge
NextSizes == \/ \E n \in WideSizes : Malloc(n)
             \/ \E e \in Held \cup {NoHolding} : Free(e)

SpecSizes == Init /\ [][NextSizes]_vars

\* ---- properties ----
SeqRange(q) == {q[i] : i \in 1..Len(q)}

\* the blocks of the heap: what printMemory lists, up to the block where it
\* would fault or start over
Walk(h) == printMemory(h).listed
\* the order of words read as signed numbers
Pos(x) == x # NULL /\ ~IsNeg(x)
SLE(x, y) == IF IsNeg(x) = IsNeg(y) THEN ULE(x, y) ELSE IsNeg(x)
SLT(x, y) == ~SLE(y, x)
Min(a, b) == IF SLE(a, b) THEN a ELSE b
Overlap(a, la, b, lb) ==
    Pos(la) /\ Pos(lb) /\ SLT(a, Add(b, lb)) /\ SLT(b, Add(a, la))
call == last.call
pre == last.pre
Returned(op) == st = "ok" /\ call.op = op

\* C1: the n bytes at a non-null address returned by allocate(n), n > 0, lie
\* inside the memory obtained from sbrk, overlap no block header and overlap
\* the payload of no other Used block
C1_RegionIsolated ==
    (Returned("malloc") /\ Pos(call.n) /\ call.ret # NULL) =>
        LET blocks == SeqRange(Walk(Heap))
        IN /\ SLE(Base(Heap), call.ret)
           /\ SLE(Add(call.ret, call.n), brk)
           /\ \A b \in blocks : ~Overlap(call.ret, call.n, b, W(BlockHdr))
           /\ \A b \in blocks :
                (~isFree(Heap, b) /\ Plus(b, BlockHdr) # call.ret)
                    => ~Overlap(call.ret, call.n, Plus(b, BlockHdr), getBlockSize(Heap, b))

\* C2: when p = allocate(n) is released and the next call is allocate(m)
\* with 0 < m <= n, that call returns p and does not move the program break
C2_ReuseFreed ==
    (/\ Returned("malloc")
     /\ prev.op = "free" /\ prev.p # NULL /\ prev.pby = "malloc"
     /\ Pos(call.n) /\ SLE(call.n, prev.pn))
        => (call.ret = prev.p /\ brk = pre.brk)

\* C3: when a release call has returned, no two blocks that follow each
\* other in heapStart..top are both Free
NoAdjacentFree(h) ==
    LET w == Walk(h)
    IN \A i \in 1..(Len(w) - 1) : ~(isFree(h, w[i]) /\ isFree(h, w[i + 1]))

C3_Coalesced == Returned("free") => NoAdjacentFree(Heap)

\* C4: allocate(r) served from a Free block of size S that can hold a
\* remainder header leaves a Used block of size align(r) at the block's
\* address, followed by a Free block of size S - align(r) - headerSize, and
\* the two end where the original block ended
ServedFrom == firstFit(pre, align(call.n))

C4_SplitCovers ==
    (/\ Returned("malloc") /\ Pos(call.n)
     /\ ServedFrom.st = "ok" /\ ServedFrom.block # NULL
     /\ UGE(getBlockSize(pre, ServedFrom.block), Plus(align(call.n), BlockHdr)))
        => LET b == ServedFrom.block
               S == getBlockSize(pre, b)
               rest == getNext(Heap, b)
           IN /\ ~isFree(Heap, b)
              /\ getBlockSize(Heap, b) = align(call.n)
              /\ isFree(Heap, rest)
              /\ getBlockSize(Heap, rest) = Minus(Sub(S, align(call.n)), BlockHdr)
              /\ getNext(Heap, rest) = getNext(pre, b)

\* C5: allocate(0) returns null and leaves heapStart, top, the search
\* cursor, every block header and the program break unchanged
C5_ZeroSizeNoOp ==
    (call.op = "malloc" /\ call.n = NULL) => (st = "ok" /\ call.ret = NULL /\ Heap = pre)

C5_Witness ==
    /\ Returned("malloc") /\ call.n = NULL
    /\ \E b \in SeqRange(Walk(Heap)) : isFree(Heap, b)

\* C6: release(null) and allocateZeroed(count, size) with count*size = 0
\* change no heap state, and the latter returns null
C6_NullAndZeroProductNoOp ==
    (\/ call.op = "free" /\ call.p = NULL
     \/ call.op = "calloc" /\ Mul(call.n, call.m) = NULL)
        => (st = "ok" /\ call.ret = NULL /\ Heap = pre)

C6_Witness ==
    /\ prev.op = "free" /\ prev.p = NULL
    /\ Returned("calloc") /\ Mul(call.n, call.m) = NULL /\ Pos(call.m)
    /\ \E b \in SeqRange(Walk(Heap)) : isFree(Heap, b)

\* C7: when no Free block qualifies and sbrk fails, allocate(n) returns
\* null and heapStart, top and every block header are as before the call
GrowthFails ==
    /\ call.op = "malloc" /\ Pos(call.n)
    /\ ServedFrom.st = "ok" /\ ServedFrom.block = NULL
    /\ ~sbrkOk(pre, align(call.n))

C7_OutOfMemoryNoChange == GrowthFails => (st = "ok" /\ call.ret = NULL /\ Heap = pre)

C7_Witness == GrowthFails /\ st = "ok" /\ Len(Walk(Heap)) >= 2

\* C8: reallocate(null, newSize) returns what allocate(newSize) returns from
\* the same state and leaves the same heap, without reading through null
C8_ReallocNullIsMalloc ==
    (call.op = "realloc" /\ call.p = NULL /\ _malloc(pre, call.n).h.st = "ok")
        => /\ st = "ok"
           /\ call.ret = _malloc(pre, call.n).ret
           /\ Heap = _malloc(pre, call.n).h

\* C9: reallocate(p, newSize) on a live payload whose block is already large
\* enough returns p, moves the program break nowhere and changes no header
\* or payload byte (stated for a nonzero newSize that is at most both the
\* size p was requested with and the size in the header the code resolves)
C9_ReallocInPlace ==
    (/\ Returned("realloc") /\ call.p # NULL
     /\ Pos(call.n) /\ SLE(call.n, call.pn)
     /\ UGE(getBlockSize(pre, getBlock(call.p)), call.n))
        => (call.ret = call.p /\ Heap = pre)

\* C10: when reallocate(p, newSize) moves the data it copies exactly
\* min(oldSize, newSize) bytes from the old payload, newSize taken as
\* requested or as rounded up to a word, so that the copy stays inside the
\* new block
C10_CopiesMin ==
    (Returned("realloc") /\ call.p # NULL /\ call.ret # NULL /\ call.ret # call.p)
        => LET oldSize == getBlockSize(pre, getBlock(call.p))
           IN call.copied \in {Min(oldSize, call.n), Min(oldSize, align(call.n))}

\* the words that hold the n bytes at a
WordsOf(a, n) == {Plus(a, off) : off \in {o \in Offsets : ULT(W(o), n)}}

\* C11: when the allocation inside reallocate(p, newSize) returns null,
\* reallocate returns null, the header of the block the code resolves from p
\* (its flag and its size) is as before the call, and so are the payload
\* bytes of p
ReallocAllocFails ==
    /\ Returned("realloc") /\ call.p # NULL /\ Pos(call.pn)
    /\ _malloc(pre, call.n).ret = NULL

C11_ReallocFailureKeepsBlock ==
    ReallocAllocFails
        => /\ call.ret = NULL
           /\ Load(Heap, getBlock(call.p)) = Load(pre, getBlock(call.p))
           /\ \A a \in WordsOf(call.p, call.pn) : Load(Heap, a) = Load(pre, a)

\* C12: under each of the three search modes the block the search hands to
\* allocate is either none or a block that is Free and whose size is at
\* least the aligned request, and the block allocate marks Used was Free and
\* large enough before the call
Requests == {align(n) : n \in ReqSizes \ {NULL}}

SearchResults(h, size) == {firstFit(h, size), nextFit(h, size), bestFit(h, size)}

FreeAndFits(h, block, size) == isFree(h, block) /\ UGE(getBlockSize(h, block), size)

C12_SearchHandsFreeFit ==
    /\ st = "ok" =>
          \A r \in Requests : \A f \in SearchResults(Heap, r) :
              (f.st = "ok" /\ f.block # NULL) => FreeAndFits(Heap, f.block, r)
    /\ (Returned("malloc") /\ Pos(call.n) /\ ServedFrom.st = "ok" /\ ServedFrom.block # NULL)
          => FreeAndFits(pre, ServedFrom.block, align(call.n))

\* C13: between public calls the walk from heapStart visits strictly
\* increasing headers and ends exactly on top, and each header visited
\* after the first lies where the extent of the block before it (header
\* and payload: address + header size + size) ends, no gap and no overlap
nextOf(h, block) == Add(Plus(block, BlockHdr), getBlockSize(h, block))

ChainToTop(h) ==
    LET w == Walk(h)
    IN h.heapStart # NULL =>
         /\ Len(w) >= 1 /\ w[Len(w)] = h.top
         /\ \A i \in 1..(Len(w) - 1) : SLT(w[i], w[i + 1]) /\ w[i + 1] = nextOf(h, w[i])

C13_ContiguousChain == st = "ok" => ChainToTop(Heap)

\* C14: the Free remainder that a split leaves behind the block handed out
\* has its header within heapStart..top, where first-fit scans and
\* canMerge look
SplitRest == getNext(Heap, ServedFrom.block)

C14_RemainderWithinTop ==
    (/\ Returned("malloc") /\ Pos(call.n)
     /\ ServedFrom.st = "ok" /\ ServedFrom.block # NULL)
        => (ULE(heapStart, SplitRest) /\ ULE(SplitRest, top))

\* C15: the value allocate returns for the block it hands out (the block
\* the search found, else the block obtained by growth) is that block's
\* address + header size, and getBlock maps it back to that block, the one
\* release then marks Free
HandedOut ==
    IF ServedFrom.block # NULL THEN ServedFrom.block
    ELSE IF sbrkOk(pre, align(call.n)) THEN pre.brk
    ELSE NULL

C15_PayloadRoundTrip ==
    (/\ Returned("malloc") /\ Pos(call.n)
     /\ ServedFrom.st = "ok" /\ HandedOut # NULL)
        => (call.ret = Plus(HandedOut, BlockHdr) /\ getBlock(call.ret) = HandedOut)

\* C16: on a search miss with growth granted, allocate(n) moves the program
\* break by align(n) + header size, the block at the old break is Used with
\* size align(n), its header and payload end at or below the new break,
\* and top (heapStart too on the first growth) is that block
Grows ==
    /\ Returned("malloc") /\ Pos(call.n)
    /\ ServedFrom.st = "ok" /\ ServedFrom.block = NULL
    /\ sbrkOk(pre, align(call.n))

C16_GrowthFormatsBlock ==
    Grows =>
        /\ brk = Plus(Add(pre.brk, align(call.n)), BlockHdr)
        /\ ~isFree(Heap, pre.brk) /\ getBlockSize(Heap, pre.brk) = align(call.n)
        /\ SLE(Add(Plus(pre.brk, BlockHdr), align(call.n)), brk)
        /\ top = pre.brk
        /\ pre.heapStart = NULL => heapStart = pre.brk

\* C17: a block the search matched whose size is below the request plus
\* the header size (an exact fit included) is handed out whole: the call
\* only clears its free flag, writes no remainder header and stores no
\* negative or wrapped size
HitTooSmallToSplit ==
    /\ Returned("malloc") /\ Pos(call.n)
    /\ ServedFrom.st = "ok" /\ ServedFrom.block # NULL
    /\ ~IsNeg(getBlockSize(pre, ServedFrom.block))
    /\ SLT(getBlockSize(pre, ServedFrom.block), Plus(align(call.n), BlockHdr))

C17_SmallHitHandedWhole ==
    HitTooSmallToSplit => Heap = setFree(pre, ServedFrom.block, FALSE)

\* C18: when release(p) merges the block it frees with its Free successor,
\* the merged block is Free and its size is the two sizes plus the header
\* size (or, counting as getNext does, the two sizes alone), so that it
\* spans both regions up to where the successor ended
Freed == getBlock(call.p)

FreedNext == getNext(pre, Freed)

Merges ==
    /\ Returned("free") /\ call.p # NULL
    /\ canMerge(setFree(pre, Freed, TRUE), Freed)
    /\ Pos(getBlockSize(pre, Freed)) /\ Pos(getBlockSize(pre, FreedNext))

C18_MergeSpansBoth ==
    Merges =>
        /\ isFree(Heap, Freed)
        /\ getBlockSize(Heap, Freed) \in
              {Add(Plus(getBlockSize(pre, Freed), BlockHdr), getBlockSize(pre, FreedNext)),
               Add(getBlockSize(pre, Freed), getBlockSize(pre, FreedNext))}

\* C19: first-fit with aligned request r returns the lowest-address block
\* on the walk from heapStart to top that is Free with size at least r, and
\* returns none exactly when the walk holds no such block
Fits(h, r) == {b \in SeqRange(Walk(h)) : FreeAndFits(h, b, r)}

LowestFit(h, r, f) ==
    /\ f.block # NULL => (f.block \in Fits(h, r) /\ \A b \in Fits(h, r) : SLE(f.block, b))
    /\ f.block = NULL <=> Fits(h, r) = {}

C19_FirstFitLowest ==
    st = "ok" =>
        \A r \in Requests : firstFit(Heap, r).st = "ok" => LowestFit(Heap, r, firstFit(Heap, r))

\* C20: the size stored in every block on the walk from heapStart (blocks
\* made by growth, split remainders, merged blocks) is a multiple of the
\* word size, and setting or clearing the free flag of such a block sets
\* the flag read back and leaves the size read back as it was
FlagKeepsSize(h, block, free) ==
    /\ getBlockSize(setFree(h, block, free), block) = getBlockSize(h, block)
    /\ isFree(setFree(h, block, free), block) = free

C20_SizesWordAligned ==
    st = "ok" =>
        \A b \in SeqRange(Walk(Heap)) :
            /\ LowBits(getBlockSize(Heap, b), WordSize) = 0
            /\ \A free \in BOOLEAN : FlagKeepsSize(Heap, b, free)

\* C21: every allocate and release call terminates in every reachable
\* heap state: the first-fit scan of the call never comes back to a block
\* it has already passed, which it would then pass for ever
C21_CallsTerminate == call.op \in {"malloc", "free"} => st # "hang"

\* C22: for the size n of an allocate call, align(n) is the smallest
\* multiple of the word size that is at least n in size_t order, align(0)
\* is 0, align(align(n)) is align(n), and the block the call hands out has
\* a size of at least n
SmallestMultiple(n, a) ==
    /\ LowBits(a, WordSize) = 0
    /\ UGE(a, n)
    /\ (n # NULL) => ~UGE(Minus(a, WordSize), n)

C22_AlignRoundsUp ==
    call.op = "malloc" =>
        /\ SmallestMultiple(call.n, align(call.n))
        /\ align(NULL) = NULL
        /\ align(align(call.n)) = align(call.n)
        /\ (st = "ok" /\ call.n # NULL /\ ServedFrom.st = "ok" /\ HandedOut # NULL)
              => UGE(getBlockSize(Heap, HandedOut), call.n)

\* C23: an allocate call leaves the header word (size and free flag) of
\* every block of the heap as it was, except the block it hands out and the
\* remainder header that a split writes behind it, and no block other than
\* the one handed out that was Used before the call is Free after it
OtherBlocks == SeqRange(Walk(pre)) \ {HandedOut}

C23_AllocateFrame ==
    (Returned("malloc") /\ Pos(call.n) /\ ServedFrom.st = "ok")
        => \A b \in OtherBlocks :
              /\ ~isFree(pre, b) => ~isFree(Heap, b)
              /\ b # Add(HandedOut, align(call.n)) => Load(Heap, b) = Load(pre, b)

====
